---- MODULE Spec2Model ----
(***************************************************************************)
(* A model of the WhatsApp REST bridge: the adapter class WhatsAppClient   *)
(* (whatsapp-client.js) and the HTTP layer (server.js).                    *)
(*                                                                         *)
(* One request is in flight at a time: route handlers only read the state  *)
(* they share (the readiness flag, the account info, the pairing code), so *)
(* requests do not affect each other; what affects a request is the        *)
(* collaborator's events and the shutdown, which interleave with it freely.*)
(*                                                                         *)
(* JavaScript is single threaded: an action of this model is one run of    *)
(* code between two suspension points (an await on a collaborator call),   *)
(* or one event callback.  Awaits on promises that are already settled     *)
(* resume in the microtask queue, before any collaborator event or result  *)
(* is delivered, and are folded into the action that settles them.         *)
(*                                                                         *)
(* Strings that the code only passes through are TLA+ strings.  Message    *)
(* bodies and search queries, which the code inspects, are sequences of    *)
(* one-character strings.                                                  *)
(***************************************************************************)
EXTENDS Integers, Sequences, FiniteSets, TLC

VARIABLES
    client,      \* WhatsAppClient.client: 0 is null, k > 0 the k-th collaborator client
    isReady,     \* WhatsAppClient.isReady
    clientInfo,  \* WhatsAppClient.clientInfo: 0 is null, k > 0 the info of client k
    qrCode,      \* WhatsAppClient.qrCode
    lastQRCode,  \* server.js lastQRCode
    live,        \* collaborator clients that were initialized and not yet destroyed
    created,     \* number of collaborator clients constructed so far
    chats,       \* the collaborator's chat list
    req,         \* the HTTP request being served (requests do not write shared state)
    tasks,       \* adapter logout()/destroy() calls awaiting the collaborator
    started,     \* number of adapter logout()/destroy() calls started so far
    destroyCalls,\* number of collaborator destroy() invocations so far
    destroyed,   \* some adapter destroy() call has completed
    exited,      \* process.exit was called
    raised,      \* the events the collaborator emitted, in order
    emitted,     \* the events the adapter re-emitted to its listeners, in order
    pendingMsgs  \* 'message' events whose handler awaits message.getContact()

vars == <<client, isReady, clientInfo, qrCode, lastQRCode, live, created,
          chats, req, tasks, started, destroyCalls, destroyed, exited,
          raised, emitted, pendingMsgs>>

adapterVars == <<client, isReady, clientInfo, qrCode, lastQRCode, live, created>>

shutdownVars == <<tasks, started, destroyCalls, destroyed, exited>>

sessionVars == <<raised, emitted, pendingMsgs>>

----------------------------------------------------------------------------
(* Bounds of the model *)

MaxChats == 2       \* chats in a generated chat list
MaxClients == 2     \* collaborator clients constructed in one behaviour
MaxCalls == 2       \* logout()/destroy() calls and termination signals in one behaviour
MaxEvents == 4      \* collaborator events recorded in one behaviour

----------------------------------------------------------------------------
(* Values *)

Null == "null"

DefaultLimit == 50

NotReadyMsg == "Client is not ready"

TypeErrorMsg == "TypeError"

UpstreamMsg == "upstream error"

QRs == {"q1", "q2"}

Min(a, b) == IF a < b THEN a ELSE b

Max(a, b) == IF a > b THEN a ELSE b

RECURSIVE SumSeq(_)
SumSeq(s) == IF s = <<>> THEN 0 ELSE Head(s) + SumSeq(Tail(s))

MapSeq(s, F(_)) == [k \in 1..Len(s) |-> F(s[k])]

----------------------------------------------------------------------------
(* The collaborator's data: chats and messages *)

Msg(fromMe, hasBody, body) == [fromMe |-> fromMe, hasBody |-> hasBody, body |-> body]

Chat(id, unreadCount, msgs) == [id |-> id, unreadCount |-> unreadCount, msgs |-> msgs]

NoChat == Chat("", 0, <<>>)

\* The chat list the server specification runs against.
World0 ==
    << Chat("A", 2, << Msg(FALSE, TRUE, <<"a", "B">>), Msg(TRUE, TRUE, <<"b">>) >>),
       Chat("B", 0, << Msg(FALSE, TRUE, <<"b">>) >>),
       Chat("C", 1, << Msg(FALSE, FALSE, <<>>) >>) >>

ChatIds(cs) == {cs[k].id : k \in 1..Len(cs)}

ChatById(cs, id) == cs[CHOOSE k \in 1..Len(cs) : cs[k].id = id]

\* chat.fetchMessages({limit}): the (at most) limit most recent messages.
FetchMessages(chat, limit) ==
    LET n == Len(chat.msgs)
        m == Min(Max(limit, 0), n)
    IN  SubSeq(chat.msgs, n - m + 1, n)

----------------------------------------------------------------------------
(* Pure parts of the adapter *)

\* chats.filter(chat => chat.unreadCount > 0)
IsUnreadOrZero(chat) == chat.unreadCount >= 0

IsUnread(chat) == chat.unreadCount > 0

UnreadFilter(cs) == SelectSeq(cs, IsUnread)

\* messages.filter(msg => !msg.fromMe)
KeepAll(msg) == TRUE

NotFromMe(msg) == ~msg.fromMe

UnreadMessagesOf(msgs) == SelectSeq(msgs, NotFromMe)

\* String.prototype.toLowerCase over the alphabet of the model
Lower(c) == CASE c = "A" -> "a" [] c = "B" -> "b" [] OTHER -> c

ToLowerCase(s) == [k \in 1..Len(s) |-> Lower(s[k])]

\* String.prototype.includes
Includes(s, t) ==
    \E k \in 0..(Len(s) - Len(t)) : SubSeq(s, k + 1, k + Len(t)) = t

\* msg.body && msg.body.toLowerCase().includes(query.toLowerCase())
BodyMatchesQueryAsTyped(msg, query) ==
    /\ msg.hasBody
    /\ msg.body # <<>>
    /\ Includes(ToLowerCase(msg.body), query)

BodyMatches(msg, query) ==
    /\ msg.hasBody
    /\ msg.body # <<>>
    /\ Includes(ToLowerCase(msg.body), ToLowerCase(query))

MatchesOf(msgs, query) ==
    LET Hit(msg) == BodyMatches(msg, query) IN SelectSeq(msgs, Hit)

\* const { limit = 50 } = req.query; parseInt(limit)          (GET /api/search)
SearchLimit(l) == IF l = <<>> THEN DefaultLimit ELSE l[1]

\* parseInt(req.query.limit) || 50             (GET /api/chats/:chatId/messages)
MessagesLimit(l) == IF l = <<>> \/ l[1] = 0 THEN DefaultLimit ELSE l[1]

\* The first chat at or after position from that satisfies the loop's condition,
\* or 0 when the loop runs off the end of the list.
NextIndex(cs, from, Cond(_)) ==
    LET S == {k \in from..Len(cs) : Cond(cs[k])}
    IN  IF S = {} THEN 0 ELSE CHOOSE k \in S : \A j \in S : k <= j

----------------------------------------------------------------------------
(* One HTTP request: its inputs, its position, its locals and its response *)

NewReq(route, in) ==
    [route |-> route,          \* the matched route
     chatId |-> in.chatId,     \* :chatId, body.chatId or query.chatId ("" when absent)
     message |-> in.message,   \* body.message ("" when absent)
     query |-> in.query,       \* query.query (<<>> when absent)
     limit |-> in.limit,       \* query.limit (<<>> when absent, <<n>> when it parses to n)
     pc |-> "start",           \* the collaborator call the handler is suspended on
     hchat |-> NoChat,         \* the route handler's own chat
     chat |-> NoChat,          \* the adapter operation's chat
     snap |-> <<>>,            \* the chat list the adapter operation iterates over
     i |-> 0,                  \* the position of the iteration in snap
     acc |-> <<>>,             \* results collected so far
     returned |-> FALSE,       \* the adapter operation returned normally
     ret |-> <<>>,             \* what it returned
     log |-> <<>>,             \* collaborator primitives invoked for this request
     status |-> 0,             \* HTTP status of the response
     body |-> <<>>,            \* JSON body of the response
     nresp |-> 0]              \* responses sent

NoInput == [chatId |-> "", message |-> "", query |-> <<>>, limit |-> <<>>]

IdleReq == [NewReq("none", NoInput) EXCEPT !.pc = "idle"]

\* res.status(status).json(body)
Respond(r, status, body) ==
    [r EXCEPT !.pc = "done", !.status = status, !.body = body, !.nresp = @ + 1]

\* An error thrown in a route handler: asyncHandler passes it to next, and the
\* error-handling middleware answers.
Err500(r, msg) ==
    Respond(r, 500, [success |-> FALSE, error |-> "Internal server error", message |-> msg])

\* The 404 handler
NotFound(r) ==
    Respond(r, 404, [success |-> FALSE, error |-> "Endpoint not found", path |-> "/nomatch"])

\* whatsappClient.isClientReady() as requireClient reads it
GateOpenAlways == TRUE

GateOpen == isReady

\* requireClient's answer when the adapter is not ready
NotReadyResponse(r) ==
    Respond(r, 503, [success |-> FALSE,
                     error |-> "WhatsApp client is not ready. Please scan QR code first.",
                     qrAvailable |-> lastQRCode # Null])

\* A collaborator primitive is invoked and the handler suspends on its promise.
Invoke(r, prim, arg, pc) ==
    [r EXCEPT !.log = Append(@, [prim |-> prim, arg |-> arg, ready |-> isReady,
                                 result |-> "pending"]),
              !.pc = pc]

\* The promise of the primitive invoked last settles.
Settled(r, ok) ==
    [r EXCEPT !.log[Len(r.log)].result = IF ok THEN "resolved" ELSE "rejected"]

\* if (!this.isReady) throw new Error('Client is not ready'); this.client.<prim>(arg)
GuardedInvoke(r, prim, arg, pc) ==
    IF ~isReady THEN Err500(r, NotReadyMsg)
    ELSE IF client = 0 THEN Err500(r, TypeErrorMsg)
    ELSE Invoke(r, prim, arg, pc)

Return(r, value) == [r EXCEPT !.returned = TRUE, !.ret = value]

\* getChats()
GetChats(r) == GuardedInvoke(r, "getChats", "", "getChats")

\* getChatById(chatId), called by the route handler (pc = "hGetChatById") or by an
\* adapter operation (pc = "getChatById")
GetChatById(r, pc) == GuardedInvoke(r, "getChatById", r.chatId, pc)

\* sendMessageToSelf(message), up to its await
SendMessageToSelf(r) ==
    IF ~isReady THEN Err500(r, NotReadyMsg)
    ELSE IF clientInfo = 0 \/ client = 0 THEN Err500(r, TypeErrorMsg)
    ELSE Invoke(r, "sendMessage", "self", "send")

\* if (!chatId || !message)
SendInvalidBoth(chatId, message) == chatId = "" /\ message = ""

SendInvalid(chatId, message) == chatId = "" \/ message = ""

\* if (!message)
SelfInvalid(message) == message = ""

\* if (!query)
SearchInvalid(query) == query = <<>>

BadRequest(r, error) == Respond(r, 400, [success |-> FALSE, error |-> error])

----------------------------------------------------------------------------
(* Response shaping *)

ChatView(chat) == [id |-> chat.id, name |-> chat.id, unreadCount |-> chat.unreadCount]

UnreadCountOf(view) == view.unreadCount

MessageView(msg) == [hasBody |-> msg.hasBody, body |-> msg.body]

MessagesOf(entry) == entry.messages

CountOf(entry) == Len(entry.messages)

MatchCountOf(entry) == Len(entry.matches)

Succeeded(result) == result.success

RootBody ==
    [name |-> "WhatsApp REST API", version |-> "1.0.0",
     status |-> IF isReady THEN "ready" ELSE "not ready",
     documentation |-> "routes"]

HealthBody ==
    [success |-> TRUE,
     status |-> IF isReady THEN "ready" ELSE "initializing",
     connected |-> isReady,
     qrAvailable |-> lastQRCode # Null,
     info |-> clientInfo]

QrBody ==
    IF isReady
    THEN [success |-> TRUE, message |-> "Already authenticated", authenticated |-> TRUE]
    ELSE IF lastQRCode # Null
    THEN [success |-> TRUE, qr |-> lastQRCode, message |-> "Scan this QR code with WhatsApp"]
    ELSE [success |-> FALSE, message |-> "QR code not yet generated. Please wait..."]

ChatsBody(cs) ==
    [success |-> TRUE, count |-> Len(cs), data |-> MapSeq(cs, ChatView)]

UnreadChatsBody(cs) ==
    LET result == MapSeq(cs, ChatView)
    IN  [success |-> TRUE, count |-> Len(result),
         totalUnread |-> SumSeq(MapSeq(result, UnreadCountOf)), data |-> result]

UnreadMessagesBody(entries) ==
    [success |-> TRUE, chatCount |-> Len(entries),
     totalMessages |-> SumSeq(MapSeq(entries, CountOf)), data |-> entries]

MessagesBody(r, msgs) ==
    [success |-> TRUE, chatId |-> r.chatId, chatName |-> r.hchat.id,
     count |-> Len(msgs), data |-> msgs]

UnreadBody(r, msgs) ==
    [success |-> TRUE, chatId |-> r.chatId, chatName |-> r.hchat.id,
     unreadCount |-> Len(msgs), data |-> MapSeq(msgs, MessageView)]

MarkReadBody(r) ==
    [success |-> TRUE, chatId |-> r.chatId, chatName |-> r.chat.id]

MarkAllReadBody(results) ==
    LET markedCount == Len(SelectSeq(results, Succeeded))
    IN  [success |-> TRUE, markedCount |-> markedCount,
         totalUnread |-> Len(results), details |-> results]

SendBody(r) ==
    [success |-> TRUE, message |-> "Message sent successfully", chatId |-> r.chatId,
     chatName |-> r.hchat.id, messageId |-> "sent"]

SelfBody ==
    [success |-> TRUE, message |-> "Message sent to self successfully", messageId |-> "sent"]

SearchBody(r, results) ==
    [success |-> TRUE, query |-> r.query, chatCount |-> Len(results),
     totalMatches |-> SumSeq(MapSeq(results, MatchCountOf)), data |-> results]

ContactsBody == [success |-> TRUE, data |-> "contacts"]

----------------------------------------------------------------------------
(* Adapter operations, from one suspension point to the next *)

\* getAllUnreadMessages: the loop from position from on, up to the next fetchMessages
ContinueUnreadMessages(r, from) ==
    LET j == NextIndex(r.snap, from, IsUnread)
    IN  IF j = 0
        THEN Respond(Return(r, r.acc), 200, UnreadMessagesBody(r.acc))
        ELSE Invoke([r EXCEPT !.i = j], "fetchMessages", r.snap[j].id, "fetch")

\* getAllUnreadMessages: the loop body after fetchMessages resolved
UnreadEntry(chat, msgs) ==
    LET unreadMessages == UnreadMessagesOf(msgs)
    IN  IF Len(unreadMessages) > 0
        THEN << [chatId |-> chat.id, unreadCount |-> Len(unreadMessages),
                 messages |-> unreadMessages] >>
        ELSE <<>>

\* markAllChatsAsRead: the loop from position from on, up to the next sendSeen
ContinueMarkAll(r, from) ==
    IF from > Len(r.snap)
    THEN Respond(Return(r, r.acc), 200, MarkAllReadBody(r.acc))
    ELSE Invoke([r EXCEPT !.i = from], "sendSeen", r.snap[from].id, "sendSeen")

\* markAllChatsAsRead: the try branch
SendSeenResolved(r) ==
    ContinueMarkAll(
        [r EXCEPT !.acc = Append(@, [chatId |-> r.snap[r.i].id, success |-> TRUE])],
        r.i + 1)

\* markAllChatsAsRead: the catch branch
SendSeenAborts(r) == Err500(r, UpstreamMsg)

SendSeenRejected(r) ==
    ContinueMarkAll(
        [r EXCEPT !.acc = Append(@, [chatId |-> r.snap[r.i].id, success |-> FALSE])],
        r.i + 1)

\* searchMessages: one chat's result entry
SearchEntry(chat, msgs, query) ==
    LET matches == MatchesOf(msgs, query)
    IN  IF Len(matches) > 0
        THEN << [chatId |-> chat.id, matches |-> matches] >>
        ELSE <<>>

\* searchMessages over all chats: the loop from position from on
ContinueSearch(r, from) ==
    IF from > Len(r.snap)
    THEN Respond(Return(r, r.acc), 200, SearchBody(r, r.acc))
    ELSE Invoke([r EXCEPT !.i = from], "fetchMessages", r.snap[from].id, "fetch")

\* What follows the resolution of client.getChats()
AfterGetChats(r, cs) ==
    CASE r.route = "chats" -> Respond(Return(r, cs), 200, ChatsBody(cs))
      [] r.route = "unread-chats" ->
            Respond(Return(r, UnreadFilter(cs)), 200, UnreadChatsBody(UnreadFilter(cs)))
      [] r.route = "unread-messages" -> ContinueUnreadMessages([r EXCEPT !.snap = cs], 1)
      [] r.route = "mark-all-read" -> ContinueMarkAll([r EXCEPT !.snap = UnreadFilter(cs)], 1)
      [] r.route = "search" -> ContinueSearch([r EXCEPT !.snap = cs], 1)

\* What follows the resolution of the route handler's own getChatById: the adapter
\* operation is called, and starts with getChatById again.
AfterHandlerChat(r, chat) == GetChatById([r EXCEPT !.hchat = chat], "getChatById")

\* What follows the resolution of an adapter operation's getChatById
AfterGetChatById(r, chat) ==
    LET r1 == [r EXCEPT !.chat = chat]
    IN  CASE r.route \in {"messages", "search"} -> Invoke(r1, "fetchMessages", chat.id, "fetch")
          [] r.route = "unread" ->
                IF chat.unreadCount = 0
                THEN Respond(Return(r1, <<>>), 200, UnreadBody(r1, <<>>))
                ELSE Invoke(r1, "fetchMessages", chat.id, "fetch")
          [] r.route = "mark-read" -> Invoke(r1, "sendSeen", chat.id, "sendSeen")
          [] r.route = "send-message" -> Invoke(r1, "sendMessage", chat.id, "send")

\* What follows the resolution of chat.fetchMessages
AfterFetch(r) ==
    CASE r.route = "messages" ->
            LET msgs == FetchMessages(r.chat, MessagesLimit(r.limit))
            IN  Respond(Return(r, msgs), 200, MessagesBody(r, msgs))
      [] r.route = "unread" ->
            LET msgs == UnreadMessagesOf(FetchMessages(r.chat, r.chat.unreadCount))
            IN  Respond(Return(r, msgs), 200, UnreadBody(r, msgs))
      [] r.route = "unread-messages" ->
            LET chat == r.snap[r.i]
                msgs == FetchMessages(chat, chat.unreadCount)
            IN  ContinueUnreadMessages([r EXCEPT !.acc = @ \o UnreadEntry(chat, msgs)], r.i + 1)
      [] r.route = "search" /\ r.chatId # "" ->
            LET msgs == FetchMessages(r.chat, SearchLimit(r.limit))
                results == SearchEntry(r.chat, msgs, r.query)
            IN  Respond(Return(r, results), 200, SearchBody(r, results))
      [] r.route = "search" /\ r.chatId = "" ->
            LET chat == r.snap[r.i]
                msgs == FetchMessages(chat, SearchLimit(r.limit))
            IN  ContinueSearch([r EXCEPT !.acc = @ \o SearchEntry(chat, msgs, r.query)],
                               r.i + 1)

\* What follows the settling of chat.sendSeen
AfterSendSeen(r, ok) ==
    CASE r.route = "mark-read" ->
            IF ok THEN Respond(Return(r, r.chat.id), 200, MarkReadBody(r))
            ELSE Err500(r, UpstreamMsg)
      [] r.route = "mark-all-read" ->
            IF ok THEN SendSeenResolved(r) ELSE SendSeenRejected(r)

\* What follows the resolution of chat.sendMessage or client.sendMessage
AfterSend(r) ==
    CASE r.route = "send-message" -> Respond(Return(r, "sent"), 200, SendBody(r))
      [] r.route = "send-message-to-self" -> Respond(Return(r, "sent"), 200, SelfBody)

----------------------------------------------------------------------------
(* The HTTP layer: routes *)

DataRoutes ==
    {"chats", "unread-chats", "unread-messages", "messages", "unread", "mark-read",
     "mark-all-read", "send-message", "send-message-to-self", "search", "contact",
     "contacts"}

OpenRoutes == {"root", "health", "qr"}

Routes == DataRoutes \cup OpenRoutes \cup {"nomatch"}

\* The route handler, from its first statement to its first suspension or response
Handler(r) ==
    CASE r.route \in {"chats", "unread-chats", "unread-messages", "mark-all-read"} ->
            GetChats(r)
      [] r.route \in {"messages", "unread"} -> GetChatById(r, "hGetChatById")
      [] r.route = "mark-read" -> GetChatById(r, "getChatById")
      [] r.route = "send-message" ->
            IF SendInvalid(r.chatId, r.message)
            THEN BadRequest(r, "Both chatId and message are required")
            ELSE GetChatById(r, "hGetChatById")
      [] r.route = "send-message-to-self" ->
            IF SelfInvalid(r.message)
            THEN BadRequest(r, "message is required")
            ELSE SendMessageToSelf(r)
      [] r.route = "search" ->
            IF SearchInvalid(r.query)
            THEN BadRequest(r, "query parameter is required")
            ELSE IF r.chatId # "" THEN GetChatById(r, "getChatById")
            ELSE GetChats(r)
      [] r.route = "contact" -> GuardedInvoke(r, "getContactById", r.chatId, "contacts")
      [] r.route = "contacts" -> GuardedInvoke(r, "getContacts", "", "contacts")

\* Express walks the middleware chain of the matched route.
Dispatch(r) ==
    CASE r.route = "root" -> Respond(r, 200, RootBody)
      [] r.route = "health" -> Respond(r, 200, HealthBody)
      [] r.route = "qr" -> Respond(r, 200, QrBody)
      [] r.route = "nomatch" -> NotFound(r)
      [] OTHER -> IF GateOpen THEN Handler(r) ELSE NotReadyResponse(r)

\* A request arrives once the previous one was answered.
Arrive(route, in) ==
    /\ ~exited
    /\ req.pc \in {"idle", "done"}
    /\ req' = Dispatch(NewReq(route, in))
    /\ UNCHANGED <<adapterVars, chats, shutdownVars, sessionVars>>

\* client.getChats() settles.
ResolveGetChats ==
    /\ ~exited
    /\ req.pc = "getChats"
    /\ \E ok \in BOOLEAN :
          req' = IF ok THEN AfterGetChats(Settled(req, ok), chats)
                 ELSE Err500(Settled(req, ok), UpstreamMsg)
    /\ UNCHANGED <<adapterVars, chats, shutdownVars, sessionVars>>

\* The route handler's client.getChatById(chatId) settles; it rejects for an id the
\* collaborator does not know.
ResolveHandlerChat ==
    /\ ~exited
    /\ req.pc = "hGetChatById"
    /\ \E ok \in {b \in BOOLEAN : b => req.chatId \in ChatIds(chats)} :
          req' = IF ok THEN AfterHandlerChat(Settled(req, ok), ChatById(chats, req.chatId))
                 ELSE Err500(Settled(req, ok), UpstreamMsg)
    /\ UNCHANGED <<adapterVars, chats, shutdownVars, sessionVars>>

\* An adapter operation's client.getChatById(chatId) settles.
ResolveGetChatById ==
    /\ ~exited
    /\ req.pc = "getChatById"
    /\ \E ok \in {b \in BOOLEAN : b => req.chatId \in ChatIds(chats)} :
          req' = IF ok THEN AfterGetChatById(Settled(req, ok), ChatById(chats, req.chatId))
                 ELSE Err500(Settled(req, ok), UpstreamMsg)
    /\ UNCHANGED <<adapterVars, chats, shutdownVars, sessionVars>>

\* chat.fetchMessages settles.
ResolveFetch ==
    /\ ~exited
    /\ req.pc = "fetch"
    /\ \E ok \in BOOLEAN :
          req' = IF ok THEN AfterFetch(Settled(req, ok))
                 ELSE Err500(Settled(req, ok), UpstreamMsg)
    /\ UNCHANGED <<adapterVars, chats, shutdownVars, sessionVars>>

\* chat.sendSeen settles.
ResolveSendSeen ==
    /\ ~exited
    /\ req.pc = "sendSeen"
    /\ \E ok \in BOOLEAN : req' = AfterSendSeen(Settled(req, ok), ok)
    /\ UNCHANGED <<adapterVars, chats, shutdownVars, sessionVars>>

\* chat.sendMessage or client.sendMessage settles.
ResolveSend ==
    /\ ~exited
    /\ req.pc = "send"
    /\ \E ok \in BOOLEAN :
          req' = IF ok THEN AfterSend(Settled(req, ok))
                 ELSE Err500(Settled(req, ok), UpstreamMsg)
    /\ UNCHANGED <<adapterVars, chats, shutdownVars, sessionVars>>

\* client.getContactById or client.getContacts settles.
ResolveContacts ==
    /\ ~exited
    /\ req.pc = "contacts"
    /\ \E ok \in BOOLEAN :
          req' = IF ok THEN Respond(Return(Settled(req, ok), "contacts"), 200, ContactsBody)
                 ELSE Err500(Settled(req, ok), UpstreamMsg)
    /\ UNCHANGED <<adapterVars, chats, shutdownVars, sessionVars>>

----------------------------------------------------------------------------
(* Collaborator events, as the adapter's and the server's listeners handle them *)

\* client.on('qr'), then whatsappClient.on('qr')
ClientQr(c, q) ==
    /\ ~exited
    /\ c \in live
    /\ qrCode' = q
    /\ lastQRCode' = q
    /\ UNCHANGED <<client, isReady, clientInfo, live, created, chats, req, shutdownVars>>

\* client.on('ready'), then whatsappClient.on('ready').  this.client.info throws when
\* the adapter holds no client: the flag is already set, and nothing is emitted.
ClientReady(c) ==
    /\ ~exited
    /\ c \in live
    /\ isReady' = TRUE
    /\ clientInfo' = IF client = 0 THEN clientInfo ELSE client
    /\ lastQRCode' = IF client = 0 THEN lastQRCode ELSE Null
    /\ UNCHANGED <<client, qrCode, live, created, chats, req, shutdownVars>>

\* client.on('auth_failure')
ClientAuthFailure(c) ==
    /\ ~exited
    /\ c \in live
    /\ isReady' = FALSE
    /\ UNCHANGED <<client, clientInfo, qrCode, lastQRCode, live, created, chats, req,
                   shutdownVars>>

\* client.on('disconnected'), then whatsappClient.on('disconnected')
ClientDisconnected(c) ==
    /\ ~exited
    /\ c \in live
    /\ isReady' = FALSE
    /\ UNCHANGED <<client, clientInfo, qrCode, lastQRCode, live, created, chats, req,
                   shutdownVars>>

\* client.on('authenticated'): the adapter's state is untouched.
ClientAuthenticated(c) ==
    /\ ~exited
    /\ c \in live
    /\ UNCHANGED <<adapterVars, chats, req, shutdownVars>>

\* client.on('message'), up to await message.getContact(); id names the event.
ClientMessage(c, id) ==
    /\ ~exited
    /\ c \in live
    /\ pendingMsgs' = pendingMsgs \cup {id}
    /\ UNCHANGED <<adapterVars, chats, req, shutdownVars>>

\* this.emit(name, arg) for the collaborator's event number id; the listeners run
\* inside the call, after the handler's assignments.
Emit(id, name, arg) ==
    Append(emitted, [id |-> id, name |-> name, arg |-> arg, ready |-> isReady'])

\* message.getContact() settles: the try branch re-emits the message, the catch
\* branch logs the error.
ContactSettles(id, ok) ==
    /\ ~exited
    /\ id \in pendingMsgs
    /\ pendingMsgs' = pendingMsgs \ {id}
    /\ UNCHANGED <<adapterVars, chats, req, shutdownVars, raised>>
    /\ emitted' = IF ok THEN Emit(id, "message", "") ELSE emitted

----------------------------------------------------------------------------
(* Adapter control: initialize, logout, destroy; the server's signal handlers *)

\* initialize()
Initialize ==
    /\ ~exited
    /\ client = 0
    /\ created < MaxClients
    /\ client' = created + 1
    /\ created' = created + 1
    /\ live' = live \cup {created + 1}
    /\ UNCHANGED <<isReady, clientInfo, qrCode, lastQRCode, chats, req, shutdownVars,
                   sessionVars>>

Task(op, target, exit) == [op |-> op, target |-> target, exit |-> exit]

\* destroy(), up to its await; exit tells whether process.exit(0) follows the call.
DestroyStart(exit) ==
    /\ ~exited
    /\ started < MaxCalls
    /\ started' = started + 1
    /\ IF client # 0
       THEN /\ tasks' = Append(tasks, Task("destroy", client, exit))
            /\ destroyCalls' = destroyCalls + 1
            /\ UNCHANGED <<destroyed, exited>>
       ELSE /\ destroyed' = TRUE
            /\ exited' = exit
            /\ UNCHANGED <<tasks, destroyCalls>>
    /\ UNCHANGED <<adapterVars, chats, req, sessionVars>>

\* process.on('SIGINT') and process.on('SIGTERM'): the same handler
Signal == DestroyStart(TRUE)

\* destroy() called through the adapter's interface
Destroy == DestroyStart(FALSE)

\* logout(), up to its await
Logout ==
    /\ ~exited
    /\ started < MaxCalls
    /\ client # 0
    /\ started' = started + 1
    /\ tasks' = Append(tasks, Task("logout", client, FALSE))
    /\ UNCHANGED <<adapterVars, chats, req, destroyCalls, destroyed, exited, sessionVars>>

RemoveAt(s, k) == SubSeq(s, 1, k - 1) \o SubSeq(s, k + 1, Len(s))

\* The collaborator's logout() or destroy() settles and the adapter call resumes.  A
\* rejection leaves the adapter as it was; in a signal handler it is an unhandled
\* rejection, which ends the process or not, depending on the runtime.
Settle(k, ok, crash) ==
    /\ ~exited
    /\ k \in 1..Len(tasks)
    /\ tasks' = RemoveAt(tasks, k)
    /\ IF ok
       THEN /\ isReady' = FALSE
            /\ clientInfo' = 0
            /\ client' = IF tasks[k].op = "destroy" THEN 0 ELSE client
            /\ live' = IF tasks[k].op = "destroy" THEN live \ {tasks[k].target} ELSE live
            /\ destroyed' = (destroyed \/ tasks[k].op = "destroy")
            /\ exited' = tasks[k].exit
       ELSE /\ UNCHANGED <<client, isReady, clientInfo, live, destroyed>>
            /\ exited' = (tasks[k].exit /\ crash)
    /\ UNCHANGED <<qrCode, lastQRCode, created, chats, req, started, destroyCalls,
                   sessionVars>>

SettleTask == \E k \in 1..Len(tasks), ok \in BOOLEAN, crash \in BOOLEAN : Settle(k, ok, crash)

----------------------------------------------------------------------------
(* Inputs *)

PathChatIds == {"A", "B", "C", "X"}

\* The requests of the server specification: each route with the inputs it reads
ServerInputs(route) ==
    CASE route \in {"messages"} ->
            {[NoInput EXCEPT !.chatId = c, !.limit = l] :
                c \in {"A", "X"}, l \in {<<>>, <<1>>}}
      [] route \in {"unread", "mark-read", "contact"} ->
            {[NoInput EXCEPT !.chatId = c] : c \in PathChatIds}
      [] route = "send-message" ->
            {[NoInput EXCEPT !.chatId = c, !.message = m] :
                c \in {"", "A", "X"}, m \in {"", "hi"}}
      [] route = "send-message-to-self" ->
            {[NoInput EXCEPT !.message = m] : m \in {"", "hi"}}
      [] route = "search" ->
            {[NoInput EXCEPT !.chatId = c, !.query = q, !.limit = l] :
                c \in {"", "A"}, q \in {<<>>, <<"B">>}, l \in {<<>>, <<1>>}}
      [] OTHER -> {NoInput}

ArriveServer == \E route \in Routes : \E in \in ServerInputs(route) : Arrive(route, in)

\* Generated chat lists: the k-th chat is named by its position.
IdAt(k) == <<"A", "B", "C", "D", "E">>[k]

Worlds(kinds) ==
    UNION {{[k \in 1..n |-> Chat(IdAt(k), f[k].unreadCount, f[k].msgs)] :
                f \in [1..n -> kinds]} : n \in 0..MaxChats}

Other == Msg(FALSE, TRUE, <<"a">>)

Mine == Msg(TRUE, TRUE, <<"a">>)

\* Chats for the unread operations: unread counts, -1 among them (a chat the user
\* marked unread by hand), against messages of either author.
UnreadKinds ==
    {[unreadCount |-> u, msgs |-> m] :
        u \in {-1, 0, 1, 2},
        m \in {<<>>, <<Other>>, <<Mine>>, <<Other, Mine>>, <<Mine, Other>>, <<Other, Other>>}}

Body(b) == Msg(FALSE, TRUE, b)

NoBody == Msg(FALSE, FALSE, <<>>)

\* Chats for the search operation: bodies in either case, empty and missing bodies.
SearchKinds ==
    {[unreadCount |-> 0, msgs |-> m] :
        m \in {<<>>, <<Body(<<"a", "B">>)>>, <<NoBody, Body(<<>>)>>,
               <<Body(<<"b", "A">>), Body(<<"a", "B">>)>>,
               <<Body(<<"A", "b">>), Body(<<"a">>)>>,
               <<Body(<<"a", "b", "A">>)>>,
               <<Body(<<"B">>), NoBody>>,
               <<Body(<<"a", "a">>), Body(<<"b", "B">>)>>}}

SearchQueries == {<<"A", "b">>, <<"B">>, <<"b", "a">>, <<"a">>}

ArriveUnread ==
    \/ \E route \in {"unread-chats", "unread-messages", "mark-all-read"} :
            Arrive(route, NoInput)
    \/ \E c \in PathChatIds : Arrive("unread", [NoInput EXCEPT !.chatId = c])

ArriveSearch ==
    \E c \in {"", "A", "B", "X"}, q \in SearchQueries, l \in {<<>>, <<1>>} :
        Arrive("search", [NoInput EXCEPT !.chatId = c, !.query = q, !.limit = l])

----------------------------------------------------------------------------
(* Specifications *)

\* server.js after it was loaded: the adapter is constructed and initialize() was called.
Init ==
    /\ client = 1
    /\ isReady = FALSE
    /\ clientInfo = 0
    /\ qrCode = Null
    /\ lastQRCode = Null
    /\ live = {1}
    /\ created = 1
    /\ chats = World0
    /\ req = IdleReq
    /\ tasks = <<>>
    /\ started = 0
    /\ destroyCalls = 0
    /\ destroyed = FALSE
    /\ exited = FALSE
    /\ raised = <<>>
    /\ emitted = <<>>
    /\ pendingMsgs = {}

\* An event of a collaborator client, in any order; what was emitted is not recorded.
ClientEvent ==
    /\ \E c \in live :
          \/ \E q \in QRs : ClientQr(c, q)
          \/ ClientReady(c)
          \/ ClientAuthFailure(c)
          \/ ClientDisconnected(c)
    /\ UNCHANGED sessionVars

Resolve ==
    \/ ResolveGetChats
    \/ ResolveHandlerChat
    \/ ResolveGetChatById
    \/ ResolveFetch
    \/ ResolveSendSeen
    \/ ResolveSend
    \/ ResolveContacts

\* The server: requests, collaborator events and termination signals
Next ==
    \/ ArriveServer
    \/ Resolve
    \/ ClientEvent
    \/ Signal
    \/ SettleTask

Spec == Init /\ [][Next]_vars

\* The adapter alone, constructed and driven through its interface
InitAdapter ==
    /\ client = 0
    /\ isReady = FALSE
    /\ clientInfo = 0
    /\ qrCode = Null
    /\ lastQRCode = Null
    /\ live = {}
    /\ created = 0
    /\ chats = World0
    /\ req = IdleReq
    /\ tasks = <<>>
    /\ started = 0
    /\ destroyCalls = 0
    /\ destroyed = FALSE
    /\ exited = FALSE
    /\ raised = <<>>
    /\ emitted = <<>>
    /\ pendingMsgs = {}

NextAdapter ==
    \/ Initialize
    \/ ClientEvent
    \/ Destroy
    \/ Logout
    \/ SettleTask

SpecAdapter == InitAdapter /\ [][NextAdapter]_vars

\* The server, connected, over every generated chat list
InitReady(worlds) ==
    /\ client = 1
    /\ isReady = TRUE
    /\ clientInfo = 1
    /\ qrCode = Null
    /\ lastQRCode = Null
    /\ live = {1}
    /\ created = 1
    /\ chats \in worlds
    /\ req = IdleReq
    /\ tasks = <<>>
    /\ started = 0
    /\ destroyCalls = 0
    /\ destroyed = FALSE
    /\ exited = FALSE
    /\ raised = <<>>
    /\ emitted = <<>>
    /\ pendingMsgs = {}

InitUnread == InitReady(Worlds(UnreadKinds))

NextUnread ==
    \/ ArriveUnread
    \/ ResolveGetChats
    \/ ResolveHandlerChat
    \/ ResolveGetChatById
    \/ ResolveFetch
    \/ ResolveSendSeen

SpecUnread == InitUnread /\ [][NextUnread]_vars

InitSearch == InitReady(Worlds(SearchKinds))

NextSearch ==
    \/ ArriveSearch
    \/ ResolveGetChats
    \/ ResolveGetChatById
    \/ ResolveFetch

SpecSearch == InitSearch /\ [][NextSearch]_vars

----------------------------------------------------------------------------
(* The server with the collaborator's events recorded as the collaborator emits   *)
(* them and as the adapter re-emits them                                          *)

\* The collaborator emits its next event.
Raises(name, arg) ==
    /\ Len(raised) < MaxEvents
    /\ raised' = Append(raised, [name |-> name, arg |-> arg])

SessionQr ==
    \E c \in live, q \in QRs :
        /\ Raises("qr", q)
        /\ ClientQr(c, q)
        /\ emitted' = Emit(Len(raised) + 1, "qr", q)
        /\ UNCHANGED pendingMsgs

SessionAuthenticated ==
    \E c \in live :
        /\ Raises("authenticated", "")
        /\ ClientAuthenticated(c)
        /\ emitted' = Emit(Len(raised) + 1, "authenticated", "")
        /\ UNCHANGED pendingMsgs

SessionReady ==
    \E c \in live :
        /\ Raises("ready", "")
        /\ ClientReady(c)
        /\ emitted' = IF client = 0 THEN emitted ELSE Emit(Len(raised) + 1, "ready", "")
        /\ UNCHANGED pendingMsgs

SessionAuthFailure ==
    \E c \in live :
        /\ Raises("auth_failure", "")
        /\ ClientAuthFailure(c)
        /\ emitted' = Emit(Len(raised) + 1, "auth_failure", "")
        /\ UNCHANGED pendingMsgs

SessionDisconnected ==
    \E c \in live :
        /\ Raises("disconnected", "")
        /\ ClientDisconnected(c)
        /\ emitted' = Emit(Len(raised) + 1, "disconnected", "")
        /\ UNCHANGED pendingMsgs

SessionMessage ==
    \E c \in live :
        /\ Raises("message", "")
        /\ ClientMessage(c, Len(raised) + 1)
        /\ UNCHANGED emitted

SettleContact == \E id \in pendingMsgs, ok \in BOOLEAN : ContactSettles(id, ok)

ArriveSession == \E route \in {"qr", "health", "chats"} : Arrive(route, NoInput)

NextSession ==
    \/ ArriveSession
    \/ ResolveGetChats
    \/ SessionQr
    \/ SessionAuthenticated
    \/ SessionReady
    \/ SessionAuthFailure
    \/ SessionDisconnected
    \/ SessionMessage
    \/ SettleContact

SpecSession == Init /\ [][NextSession]_vars

----------------------------------------------------------------------------
(* Properties *)

\* A request arrives in this step and is dispatched.
Arrives == req.pc \in {"idle", "done"} /\ req' # req

\* C1: a data route reached while the adapter is not ready answers 503 with
\* success = false and qrAvailable telling whether a pairing code is stored; no
\* collaborator primitive is invoked for the request, and the request is finished
\* by that answer: it is not kept to be served later.
C1_NotReadyGate ==
    [][ /\ (Arrives /\ req'.route \in DataRoutes /\ ~isReady) =>
              /\ req'.pc = "done"
              /\ req'.nresp = 1
              /\ req'.status = 503
              /\ req'.body.success = FALSE
              /\ req'.body.qrAvailable = (lastQRCode # Null)
              /\ req'.log = <<>>
        /\ (req.status = 503 /\ req' # req) => Arrives ]_vars

C1_Witness ==
    /\ req.route = "send-message"
    /\ req.chatId = "A"
    /\ req.message = "hi"
    /\ req.status = 503
    /\ req.body.qrAvailable
    /\ req.log = <<>>

\* C2: no collaborator primitive is invoked for a request at a moment when the
\* readiness flag is false.
C2_NoPrimitiveWhileNotReady ==
    \A k \in 1..Len(req.log) : req.log[k].ready

\* The chats of a list with a positive unread count, in the order of the list
RECURSIVE WithUnread(_)
WithUnread(cs) ==
    IF cs = <<>> THEN <<>>
    ELSE (IF Head(cs).unreadCount >= 1 THEN <<Head(cs)>> ELSE <<>>) \o WithUnread(Tail(cs))

\* The log entries of one primitive, in the order of invocation
CallsOf(log, prim) == LET Is(e) == e.prim = prim IN SelectSeq(log, Is)

\* C3: markAllChatsAsRead attempts one read receipt for each chat with
\* unreadCount > 0 in the chat list it fetched, in the list's order and whatever
\* the earlier receipts did; each settled receipt has one result entry, in the same
\* order, whose success flag tells whether the receipt resolved; once getChats
\* resolved the operation returns normally and the route answers 200 with
\* totalUnread the number of those chats and markedCount the number of receipts
\* that resolved.
C3_MarkAllRead ==
    (req.route = "mark-all-read" /\ Len(req.log) >= 1 /\ req.log[1].result = "resolved") =>
        LET unread == WithUnread(chats)
            seen == CallsOf(req.log, "sendSeen")
            results == IF req.returned THEN req.ret ELSE req.acc
        IN  /\ Len(seen) <= Len(unread)
            /\ \A k \in 1..Len(seen) : seen[k].arg = unread[k].id
            /\ Len(results) = Cardinality({k \in 1..Len(seen) : seen[k].result # "pending"})
            /\ \A k \in 1..Len(results) :
                  /\ results[k].chatId = unread[k].id
                  /\ results[k].success = (seen[k].result = "resolved")
            /\ req.pc = "done" =>
                  /\ req.returned
                  /\ Len(req.ret) = Len(unread)
                  /\ Len(seen) = Len(unread)
                  /\ req.nresp = 1
                  /\ req.status = 200
                  /\ req.body.success = TRUE
                  /\ req.body.totalUnread = Len(unread)
                  /\ req.body.markedCount =
                        Cardinality({k \in 1..Len(seen) : seen[k].result = "resolved"})

C3_Witness ==
    /\ req.route = "mark-all-read"
    /\ req.returned
    /\ Len(chats) = 2
    /\ Len(req.ret) = 2
    /\ ~req.ret[1].success
    /\ req.ret[2].success
    /\ req.body.markedCount = 1

\* A send or search request that lacks a required field
MissingField(r) ==
    \/ r.route = "send-message" /\ (r.chatId = "" \/ r.message = "")
    \/ r.route = "send-message-to-self" /\ r.message = ""
    \/ r.route = "search" /\ r.query = <<>>

\* C4: with the adapter ready, a send or search request that lacks a required
\* field is answered 400 with success = false in the step that dispatches it: no
\* collaborator primitive is invoked and no message is sent.
C4_Validation ==
    [][ (Arrives /\ isReady /\ MissingField(req')) =>
            /\ req'.pc = "done"
            /\ req'.nresp = 1
            /\ req'.status = 400
            /\ req'.body.success = FALSE
            /\ req'.log = <<>> ]_vars

C4_Witness ==
    /\ req.route = "send-message"
    /\ req.chatId = "A"
    /\ req.message = ""
    /\ req.status = 400
    /\ req.log = <<>>

\* C5: getAllUnreadMessages returns no self-authored message, no entry for a chat
\* whose unreadCount is 0 or whose fetched messages are all self-authored, and only
\* entries with a non-empty message list as long as their unreadCount;
\* getUnreadMessagesFromChat returns no self-authored message, and for a chat whose
\* unreadCount is 0 the empty sequence without calling fetchMessages.
C5_UnreadNotFromMe ==
    /\ (req.route = "unread-messages" /\ req.returned) =>
          \A k \in 1..Len(req.ret) :
              LET e == req.ret[k]
                  chat == ChatById(chats, e.chatId)
                  fetched == FetchMessages(chat, chat.unreadCount)
              IN  /\ Len(e.messages) > 0
                  /\ e.unreadCount = Len(e.messages)
                  /\ \A j \in 1..Len(e.messages) : e.messages[j].fromMe = FALSE
                  /\ chat.unreadCount # 0
                  /\ \E j \in 1..Len(fetched) : ~fetched[j].fromMe
    /\ (req.route = "unread" /\ req.returned) =>
          /\ \A j \in 1..Len(req.ret) : req.ret[j].fromMe = FALSE
          /\ ChatById(chats, req.chatId).unreadCount = 0 =>
                /\ req.ret = <<>>
                /\ CallsOf(req.log, "fetchMessages") = <<>>

C5_Witness ==
    /\ req.route = "unread-messages"
    /\ req.returned
    /\ Len(chats) = 2
    /\ chats[1].unreadCount = 2
    /\ chats[1].msgs = <<Other, Mine>>
    /\ chats[2].unreadCount = 1
    /\ chats[2].msgs = <<Other, Mine>>
    /\ Len(req.ret) = 1
    /\ req.ret[1].messages = <<Other>>

\* C6: the unread-chat result is exactly the chats with unreadCount > 0, in their
\* original order; the response's count is their number, its data lists them and
\* its totalUnread is the sum of their unread counts.
C6_UnreadChats ==
    (req.route = "unread-chats" /\ req.returned) =>
        LET unread == WithUnread(chats)
        IN  /\ req.ret = unread
            /\ \A k \in 1..Len(req.ret) : req.ret[k].unreadCount > 0
            /\ req.body.count = Len(unread)
            /\ Len(req.body.data) = Len(unread)
            /\ \A k \in 1..Len(unread) :
                  /\ req.body.data[k].id = unread[k].id
                  /\ req.body.data[k].unreadCount = unread[k].unreadCount
            /\ req.body.totalUnread =
                  SumSeq([k \in 1..Len(unread) |-> unread[k].unreadCount])

C6_Witness ==
    /\ req.route = "unread-chats"
    /\ req.returned
    /\ Len(chats) = 2
    /\ chats[1].unreadCount = 2
    /\ chats[2].unreadCount = 0
    /\ req.body.count = 1
    /\ req.body.data[1].id = "A"
    /\ req.body.totalUnread = 2

\* Two characters that are the same letter, whatever their case
SameLetter(x, y) == x = y \/ {x, y} = {"a", "A"} \/ {x, y} = {"b", "B"}

\* The message has a non-empty body in which the query occurs, ignoring case.
Occurs(msg, query) ==
    /\ msg.hasBody
    /\ Len(msg.body) > 0
    /\ \E off \in 0..Len(msg.body) :
          /\ off + Len(query) <= Len(msg.body)
          /\ \A j \in 1..Len(query) : SameLetter(msg.body[off + j], query[j])

\* The limit most recent messages of a chat
Recent(chat, limit) ==
    [k \in 1..Min(limit, Len(chat.msgs)) |->
        chat.msgs[Len(chat.msgs) - Min(limit, Len(chat.msgs)) + k]]

\* The search result over a list of chats: per chat with an occurrence, its
\* occurrences among its limit most recent messages
RECURSIVE Found(_, _, _)
Found(cs, query, limit) ==
    IF cs = <<>> THEN <<>>
    ELSE LET recent == Recent(Head(cs), limit)
             hits == {k \in 1..Len(recent) : Occurs(recent[k], query)}
             Hit(msg) == Occurs(msg, query)
         IN  (IF hits = {} THEN <<>>
              ELSE << [chatId |-> Head(cs).id, matches |-> SelectSeq(recent, Hit)] >>)
             \o Found(Tail(cs), query, limit)

\* C7: searchMessages returns, for each scanned chat and in the order scanned,
\* exactly those of its limit most recent messages whose non-empty body contains
\* the query ignoring case, and nothing for a chat without such a message; with a
\* chatId it fetches and scans that chat only, otherwise every chat of the list.
C7_Search ==
    (req.route = "search" /\ req.returned) =>
        LET limit == IF req.limit = <<>> THEN 50 ELSE req.limit[1]
            scanned == IF req.chatId # "" THEN <<ChatById(chats, req.chatId)>> ELSE chats
            fetches == CallsOf(req.log, "fetchMessages")
        IN  /\ req.ret = Found(scanned, req.query, limit)
            /\ Len(fetches) = Len(scanned)
            /\ \A k \in 1..Len(scanned) : fetches[k].arg = scanned[k].id
            /\ \A k \in 1..Len(req.ret) : \A j \in 1..Len(req.ret[k].matches) :
                  /\ req.ret[k].matches[j].hasBody
                  /\ req.ret[k].matches[j].body # <<>>

C7_Witness ==
    /\ req.route = "search"
    /\ req.returned
    /\ req.chatId = ""
    /\ req.query = <<"A", "b">>
    /\ req.limit = <<1>>
    /\ Len(chats) = 2
    /\ chats[1].msgs = <<Body(<<"b", "A">>), Body(<<"a", "B">>)>>
    /\ chats[2].msgs = <<Body(<<"A", "b">>), Body(<<"a">>)>>
    /\ Len(req.ret) = 1
    /\ req.ret[1].chatId = "A"
    /\ req.ret[1].matches = <<Body(<<"a", "B">>)>>

\* C8: every response carries a boolean success field and each request gets exactly
\* one response; a collaborator call that rejects in a route handler yields 500 with
\* success = false; an unmatched request yields 404 with success = false and the
\* requested path.
C8_Envelope ==
    req.pc = "done" =>
        /\ req.nresp = 1
        /\ "success" \in DOMAIN req.body
        /\ req.body.success \in BOOLEAN
        /\ req.status \in {400, 404, 500, 503} => ~req.body.success
        /\ (\E k \in 1..Len(req.log) : req.log[k].result = "rejected")
              /\ req.route # "mark-all-read" => req.status = 500
        /\ req.route = "nomatch" => req.status = 404 /\ "path" \in DOMAIN req.body

\* C9: the collaborator's destroy is invoked at most once, and the process exits
\* only after a destroy has completed.
C9_SingleTeardown ==
    /\ destroyCalls <= 1
    /\ exited => destroyCalls > Len(tasks)

\* C10: once a destroy() call has completed the adapter is never ready again,
\* whatever is called or emitted afterwards; and while a destroy() awaits the
\* collaborator the adapter does not report itself ready.
C10_DestroyedIsTerminal ==
    /\ destroyed => ~isReady
    /\ (\E k \in 1..Len(tasks) : tasks[k].op = "destroy") => ~isReady

RelayedKinds == {"qr", "authenticated", "ready", "auth_failure", "disconnected", "message"}

\* C11: the adapter re-emits the collaborator's events in the order the collaborator
\* emitted them, each under its own name and at most once; no event is lost (one not
\* re-emitted yet is a message whose handler is still suspended); and the listeners
\* of ready see the readiness flag true, those of auth_failure and disconnected see
\* it false.
C11_RelayedInOrder ==
    /\ \A i, j \in 1..Len(emitted) : i < j => emitted[i].id < emitted[j].id
    /\ \A k \in 1..Len(raised) :
          raised[k].name \in RelayedKinds =>
              \/ k \in pendingMsgs
              \/ \E i \in 1..Len(emitted) : emitted[i].id = k
    /\ \A i \in 1..Len(emitted) :
          /\ emitted[i].name = raised[emitted[i].id].name
          /\ emitted[i].name = "ready" => emitted[i].ready
          /\ emitted[i].name \in {"auth_failure", "disconnected"} => ~emitted[i].ready

\* The code of the most recent qr event with no ready event after it, Null if none
RECURSIVE CodeAfter(_)
CodeAfter(events) ==
    IF events = <<>> THEN Null
    ELSE LET last == events[Len(events)]
         IN  IF last.name = "qr" THEN last.arg
             ELSE IF last.name = "ready" THEN Null
             ELSE CodeAfter(SubSeq(events, 1, Len(events) - 1))

\* C12: after any sequence of collaborator events, after every step the stored
\* pairing code is the code of the most recent qr event with no
\* ready event after it (null if there is none) and is null whenever the adapter is
\* ready; GET /qr answers 'authenticated' when the adapter is ready, the most
\* recently issued code when it is not ready and a code is pending, and
\* success = false otherwise; GET /health and the readiness gate never report
\* qrAvailable = true for a ready adapter.
C12_PairingCode ==
    [][ /\ lastQRCode' = CodeAfter(raised')
        /\ (Arrives /\ req'.route = "qr") =>
              /\ req'.status = 200
              /\ isReady => (req'.body.success /\ "authenticated" \in DOMAIN req'.body)
              /\ (~isReady /\ CodeAfter(raised) # Null) =>
                    /\ req'.body.success
                    /\ "qr" \in DOMAIN req'.body
                    /\ req'.body.qr = CodeAfter(raised)
              /\ (~isReady /\ CodeAfter(raised) = Null) => ~req'.body.success
        /\ (Arrives /\ req'.route = "health") =>
              /\ req'.body.connected = isReady
              /\ req'.body.qrAvailable = (CodeAfter(raised) # Null)
              /\ ~(req'.body.connected /\ req'.body.qrAvailable)
        /\ (Arrives /\ req'.status = 503) =>
              /\ ~isReady
              /\ req'.body.qrAvailable = (CodeAfter(raised) # Null) ]_vars

\* C13: in every reachable adapter state, if the readiness flag is true the adapter
\* holds a collaborator client and non-null account info, so sendMessageToSelf and
\* getUserInfo, which read the account info right after the readiness check, never
\* dereference a missing client or missing account info.
C13_ReadyHasClientInfo == isReady => (client # 0 /\ clientInfo # 0)

====
